---- MODULE Spec2Model ----
(***************************************************************************)
(* LittleLanguage front end: the Lexer (src/lexer) and the nom grammar     *)
(* engine (src/parser).  Source text is a sequence of one-character        *)
(* strings; both components are modelled character by character.           *)
(***************************************************************************)
EXTENDS Integers, Sequences, FiniteSets, TLC

VARIABLES content, input_iter, line_number, column, tokens, finished, panicked,
          rest, acc, outcome

lexerVars == <<input_iter, line_number, column, tokens, finished, panicked>>
parserVars == <<rest, acc, outcome>>
vars == <<content, input_iter, line_number, column, tokens, finished, panicked,
          rest, acc, outcome>>

\* ------------------------------------------------------------ bounds
MaxOpLen == 3
MaxStrLen == 5
MaxWords == 3
MaxCommentLen == 2

\* ------------------------------------------------------- characters
Lower == {"a","b","c","d","e","f","g","h","i","j","k","l","m",
          "n","o","p","q","r","s","t","u","v","w","x","y","z"}
Upper == {"A","B","C","D","E","F","G","H","I","J","K","L","M",
          "N","O","P","Q","R","S","T","U","V","W","X","Y","Z"}
Alphabetic == Lower \cup Upper
\* char::is_alphabetic is Unicode-wide: one letter outside ASCII stands for
\* them all. It takes two bytes in UTF-8.
Letters == Alphabetic \cup {"é"}
Digits == {"0","1","2","3","4","5","6","7","8","9"}
Whitespace == {" ", "\t", "\r", "\n"}

\* Sequences over S of length at most n.
SeqsUpTo(S, n) == UNION {[1..k -> S] : k \in 0..n}

RECURSIVE Concat(_)
Concat(ss) == IF ss = <<>> THEN <<>> ELSE Head(ss) \o Concat(Tail(ss))

\* ------------------------------------------------------------ words
W_if == <<"i","f">>
W_else == <<"e","l","s","e">>
W_for == <<"f","o","r">>
W_function == <<"f","u","n","c","t","i","o","n">>
W_variable == <<"v","a","r","i","a","b","l","e">>
W_container == <<"c","o","n","t","a","i","n","e","r">>
W_true == <<"t","r","u","e">>
W_false == <<"f","a","l","s","e">>

\* ------------------------------------------------------------ Lexer
None == [kind |-> "None"]

Location(col, line) == [column |-> col, line |-> line]

Token(kind, loc) == [kind |-> kind, loc |-> loc, payload |-> <<>>]

TokenWith(kind, loc, payload) == [kind |-> kind, loc |-> loc, payload |-> payload]

Lexer(i, l, c) == [input_iter |-> i, line_number |-> l, column |-> c]

new(text) == Lexer(text, 1, 1)

peek_char(lx) == IF lx.input_iter = <<>> THEN "EOF" ELSE Head(lx.input_iter)

read_char(lx) ==
    Lexer(IF lx.input_iter = <<>> THEN <<>> ELSE Tail(lx.input_iter),
          lx.line_number, lx.column + 1)

is_whitespace(c) == c \in Whitespace

RECURSIVE skip_whitespace(_)
skip_whitespace(lx) ==
    IF lx.input_iter # <<>> /\ is_whitespace(peek_char(lx))
    THEN LET r == read_char(lx)
         IN  skip_whitespace(IF peek_char(lx) = "\n"
                             THEN Lexer(r.input_iter, r.line_number + 1, 1)
                             ELSE r)
    ELSE lx

is_letter(c) == c \in Letters \/ c = "_"

len_utf8(c) == IF c = "é" THEN 2 ELSE 1

\* String::len: the length in bytes.
RECURSIVE len(_)
len(word) == IF word = <<>> THEN 0 ELSE len_utf8(Head(word)) + len(Tail(word))

is_digit(c) == c \in Digits

is_ident_character(c) == is_letter(c) \/ is_digit(c)

\* A slip of lookup_keyword: the arm of `false` is missing.
lookup_keyword_short(lx, word) ==
    LET loc == Location(lx.column - len(word), lx.line_number)
    IN  CASE word = W_else -> Token("Else", loc)
          [] word = W_container -> Token("Container", loc)
          [] word = W_for -> Token("For", loc)
          [] word = W_if -> Token("If", loc)
          [] word = W_function -> Token("Function", loc)
          [] word = W_variable -> Token("Variable", loc)
          [] word = W_true -> Token("True", loc)
          [] OTHER -> TokenWith("Identifier", loc, word)

\* column - identifier.len() is a usize subtraction. When the word holds more
\* bytes than the column counts characters it overflows: the model keeps the
\* negative difference d, which stands for the wrapped value 2^64 + d of a
\* build without overflow checks; a build with them panics (LexPanic).
lookup_keyword(lx, word) ==
    LET loc == Location(lx.column - len(word), lx.line_number)
    IN  CASE word = W_else -> Token("Else", loc)
          [] word = W_container -> Token("Container", loc)
          [] word = W_for -> Token("For", loc)
          [] word = W_if -> Token("If", loc)
          [] word = W_function -> Token("Function", loc)
          [] word = W_variable -> Token("Variable", loc)
          [] word = W_true -> Token("True", loc)
          [] word = W_false -> Token("False", loc)
          [] OTHER -> TokenWith("Identifier", loc, word)

\* The loops of read_identifier / read_number / read_string return the text
\* they collected and the lexer they leave behind.
RECURSIVE read_identifier_loop(_, _)
read_identifier_loop(lx, word) ==
    IF lx.input_iter # <<>> /\ is_ident_character(peek_char(lx))
    THEN read_identifier_loop(read_char(lx), Append(word, peek_char(lx)))
    ELSE [text |-> word, lx |-> lx]

read_identifier(lx, ch) == read_identifier_loop(lx, <<ch>>)

\* A slip of read_string: every quote ends the string, escaped or not.
RECURSIVE read_string_loop_raw(_, _, _)
read_string_loop_raw(lx, string, last) ==
    IF lx.input_iter = <<>>
    THEN [text |-> string, lx |-> lx]
    ELSE LET ch == peek_char(lx)
         IN  IF ch = "\""
             THEN [text |-> string, lx |-> read_char(lx)]
             ELSE read_string_loop_raw(read_char(lx), Append(string, ch), ch)

\* A slip of read_string: an escaped quote is decoded, its backslash dropped
\* from the payload.
RECURSIVE read_string_loop_decoding(_, _, _)
read_string_loop_decoding(lx, string, last) ==
    IF lx.input_iter = <<>>
    THEN [text |-> string, lx |-> lx]
    ELSE LET ch == peek_char(lx)
         IN  IF ch = "\"" /\ last # "\\"
             THEN [text |-> string, lx |-> read_char(lx)]
             ELSE read_string_loop_decoding(
                      read_char(lx),
                      IF ch = "\"" THEN Append(SubSeq(string, 1, Len(string) - 1), ch)
                                   ELSE Append(string, ch),
                      ch)

RECURSIVE read_string_loop(_, _, _)
read_string_loop(lx, string, last) ==
    IF lx.input_iter = <<>>
    THEN [text |-> string, lx |-> lx]
    ELSE LET ch == peek_char(lx)
         IN  IF ch = "\"" /\ last # "\\"
             THEN [text |-> string, lx |-> read_char(lx)]
             ELSE read_string_loop(read_char(lx), Append(string, ch), ch)

read_string(lx) == read_string_loop(lx, <<>>, "NUL")

RECURSIVE read_number_loop(_, _)
read_number_loop(lx, number) ==
    IF lx.input_iter # <<>> /\ is_digit(peek_char(lx))
    THEN read_number_loop(read_char(lx), Append(number, peek_char(lx)))
    ELSE [text |-> number, lx |-> lx]

read_number(lx, ch) == read_number_loop(lx, <<ch>>)

RECURSIVE next_line_loop(_)
next_line_loop(lx) ==
    IF lx.input_iter = <<>>
    THEN lx
    ELSE IF peek_char(lx) = "\n" THEN read_char(lx) ELSE next_line_loop(read_char(lx))

next_line(lx) == next_line_loop(Lexer(lx.input_iter, lx.line_number + 1, 1))

\* A slip of operator_token: the second character is never looked at.
operator_token_single(lx, second, two, one) ==
    [tok |-> Token(one, Location(lx.column - 1, lx.line_number)), lx |-> lx]

\* One arm of next_token's match for a character with a two-character form:
\* lx is the lexer after the first character was read.
operator_token(lx, second, two, one) ==
    IF peek_char(lx) = second
    THEN LET r == read_char(lx)
         IN  [tok |-> Token(two, Location(r.column - 2, r.line_number)), lx |-> r]
    ELSE [tok |-> Token(one, Location(lx.column - 1, lx.line_number)), lx |-> lx]

single_token(lx, kind) ==
    [tok |-> Token(kind, Location(lx.column - 1, lx.line_number)), lx |-> lx]

RECURSIVE next_token(_)
next_token(lx0) ==
    LET s == skip_whitespace(lx0)
        ch == peek_char(s)
        lx == read_char(s)
    IN  IF s.input_iter = <<>>
        THEN [tok |-> None, lx |-> lx]
        ELSE CASE ch = "=" -> operator_token(lx, "=", "Equality", "Assignment")
               [] ch = ">" -> operator_token(lx, "=", "GreaterEqualTo", "GreaterThan")
               [] ch = "<" -> operator_token(lx, "=", "LessEqualTo", "LessThan")
               [] ch = "-" -> operator_token(lx, "=", "SubtractEqual", "Subtraction")
               [] ch = "+" -> operator_token(lx, "=", "AddEqual", "Addition")
               [] ch = "*" -> operator_token(lx, "=", "MultiplyEqual", "Multiply")
               [] ch = "/" ->
                    IF peek_char(lx) = "="
                    THEN operator_token(lx, "=", "DivideEqual", "Divide")
                    ELSE IF peek_char(lx) = "/"
                         THEN next_token(next_line(lx))
                         ELSE operator_token(lx, "=", "DivideEqual", "Divide")
               [] ch = "," -> single_token(lx, "Comma")
               [] ch = "{" -> single_token(lx, "OpenCurlyBrace")
               [] ch = "}" -> single_token(lx, "CloseCurlyBrace")
               [] ch = "[" -> single_token(lx, "OpenBracket")
               [] ch = "]" -> single_token(lx, "CloseBracket")
               [] ch = "(" -> single_token(lx, "OpenParentheses")
               [] ch = ")" -> single_token(lx, "CloseParentheses")
               [] ch = ";" -> single_token(lx, "Semicolon")
               [] ch = "\"" ->
                    LET r == read_string(lx)
                    IN  [tok |-> TokenWith("StringLiteral",
                                           Location(lx.column - 1, lx.line_number),
                                           r.text),
                         lx |-> r.lx]
               [] ch = "." -> single_token(lx, "Dot")
               [] ch = "~" -> single_token(lx, "BitwiseNot")
               [] ch = "!" -> operator_token(lx, "=", "LogicalNotEqualTo", "LogicalNot")
               [] ch = "&" -> operator_token(lx, "&", "LogicalAnd", "BitwiseAnd")
               [] ch = "|" -> operator_token(lx, "|", "LogicalOr", "BitwiseOr")
               [] OTHER ->
                    IF is_letter(ch)
                    THEN LET r == read_identifier(lx, ch)
                         IN  [tok |-> lookup_keyword(r.lx, r.text), lx |-> r.lx]
                    ELSE IF is_digit(ch)
                         THEN LET r == read_number(lx, ch)
                              IN  [tok |-> TokenWith("NumberLiteral",
                                                     Location(lx.column, lx.line_number),
                                                     r.text),
                                   lx |-> r.lx]
                         ELSE [tok |-> None, lx |-> lx]

\* ----------------------------------------------------- Lexer inputs
OpFirst == {"=", ">", "<", "-", "+", "*", "/", "!", "&", "|"}

OpInputs == SeqsUpTo(OpFirst \cup {"a", " "}, MaxOpLen)

StrInputs == {<<"\"">> \o s : s \in SeqsUpTo({"\"", "\\", "a"}, MaxStrLen)}
                 \cup {<<"\"", "a", "\\", "\"", "b", "\"">>}

WordPieces == {W_if, W_else, W_for, W_function, W_variable, W_container,
               W_true, W_false, <<"a">>, <<"_">>, <<"1">>, <<" ">>, <<"#">>, <<"é">>}

WordInputs == {Concat(ps) : ps \in SeqsUpTo(WordPieces, MaxWords)}

\* A `//` comment of up to MaxCommentLen characters, closed by a newline, between
\* what stands before it on its line and what follows on the next line.
CommentBefore == {<<>>, <<"a", " ">>, <<"1">>, <<";", "\n">>}

CommentAfter == {<<>>, <<"a">>, <<" ", "1">>, W_if \o <<";">>, <<"=", "=", "\n", "b">>,
                 <<"/", "/", "c", "\n", "a">>}

CommentInputs ==
    {b \o <<"/", "/">> \o c \o <<"\n">> \o a :
        b \in CommentBefore, c \in SeqsUpTo({"a", " ", "/"}, MaxCommentLen),
        a \in CommentAfter}

LexInputs == OpInputs \cup StrInputs \cup WordInputs \cup CommentInputs

\* ------------------------------------------------- Lexer::lex loop
ParserIdle == rest = <<>> /\ acc = <<>> /\ outcome = [tag |-> "Idle"]

LexerInit ==
    /\ content \in LexInputs
    /\ input_iter = content
    /\ line_number = 1
    /\ column = 1
    /\ tokens = <<>>
    /\ finished = FALSE
    /\ panicked = FALSE
    /\ ParserIdle

\* Iterator::next returned Some(token): lex pushes it.
LexPush ==
    /\ ~finished /\ ~panicked
    /\ LET r == next_token(Lexer(input_iter, line_number, column))
       IN  /\ r.tok # None
           /\ tokens' = Append(tokens, r.tok)
           /\ input_iter' = r.lx.input_iter
           /\ line_number' = r.lx.line_number
           /\ column' = r.lx.column
    /\ UNCHANGED <<content, finished, panicked, parserVars>>

\* Iterator::next returned None: the for loop of lex ends.
LexStop ==
    /\ ~finished /\ ~panicked
    /\ LET r == next_token(Lexer(input_iter, line_number, column))
       IN  /\ r.tok = None
           /\ input_iter' = r.lx.input_iter
           /\ line_number' = r.lx.line_number
           /\ column' = r.lx.column
    /\ finished' = TRUE
    /\ UNCHANGED <<content, tokens, panicked, parserVars>>

\* The subtraction of lookup_keyword overflowed in a build with overflow checks
\* (the debug profile): next_token panics after reading the word, and lex
\* returns nothing.
LexPanic ==
    /\ ~finished /\ ~panicked
    /\ LET r == next_token(Lexer(input_iter, line_number, column))
       IN  /\ r.tok # None
           /\ r.tok.loc.column < 0
           /\ input_iter' = r.lx.input_iter
           /\ line_number' = r.lx.line_number
           /\ column' = r.lx.column
    /\ panicked' = TRUE
    /\ UNCHANGED <<content, tokens, finished, parserVars>>

LexerNext == LexPush \/ LexStop \/ LexPanic

\* Lexer::lex as a function of the text, for a build without overflow checks:
\* the tokens next_token yields until it yields None.
RECURSIVE lex_loop(_, _)
lex_loop(lx, ts) ==
    LET r == next_token(lx)
    IN  IF r.tok = None THEN ts ELSE lex_loop(r.lx, Append(ts, r.tok))

lex(lx) == lex_loop(lx, <<>>)

LexerSpec == LexerInit /\ [][LexerNext]_vars

\* --------------------------------------------- nom: results, errors
\* An IResult: Ok((rest, out)), Err(Err::Error(e)) or Err(Err::Failure(e)); e is a
\* VerboseError, the list of frames pushed from the innermost rule outwards.
Ok(r, o) == [k |-> "Ok", rest |-> r, out |-> o, errors |-> <<>>]

Error(frame) == [k |-> "Error", rest |-> <<>>, out |-> <<>>, errors |-> <<frame>>]

IsOk(r) == r.k = "Ok"

\* Sequencing (pair, preceded, terminated, delimited, tuple): the next parser
\* runs on what the first left; the first error is returned as it is.
and_then(r, Next(_)) == IF IsOk(r) THEN Next(r) ELSE r

\* map(p, f)
map(r, F(_)) == IF IsOk(r) THEN Ok(r.rest, F(r.out)) ELSE r

\* context(name, p): add_context pushes a frame on Error and on Failure.
context(name, r) == IF IsOk(r) THEN r ELSE [r EXCEPT !.errors = Append(@, name)]

\* cut(p): an Error becomes a Failure.
cut(r) == IF r.k = "Error" THEN [r EXCEPT !.k = "Failure"] ELSE r

\* opt(p): an Error becomes Ok(None) on the untouched input.
NoneOpt == [some |-> FALSE, v |-> <<>>]

Some(v) == [some |-> TRUE, v |-> v]

opt(i, r) ==
    IF IsOk(r) THEN Ok(r.rest, Some(r.out))
    ELSE IF r.k = "Error" THEN Ok(i, NoneOpt) ELSE r

\* alt((a, b, c)): the first result that is not an Error; when all are Errors, the
\* last one's frames with an Alt frame appended.
alt3(a, b, c) ==
    IF a.k # "Error" THEN a
    ELSE IF b.k # "Error" THEN b
    ELSE IF c.k # "Error" THEN c
    ELSE [c EXCEPT !.errors = Append(@, "Alt")]

alt5(a, b, c, d, e) ==
    IF a.k # "Error" THEN a
    ELSE IF b.k # "Error" THEN b
    ELSE IF c.k # "Error" THEN c
    ELSE IF d.k # "Error" THEN d
    ELSE IF e.k # "Error" THEN e
    ELSE [e EXCEPT !.errors = Append(@, "Alt")]

\* One round of many0 / fold_many0 at input i with the values collected so far:
\* r is the element parser's result at i.
many0_round(i, r, collected, Continue(_)) ==
    IF IsOk(r)
    THEN IF r.rest = i THEN Error("Many0") ELSE Continue(r)
    ELSE IF r.k = "Error" THEN Ok(i, collected) ELSE r

\* One parser call of separated_list, whose list began at (or last grew to) i.
list_round(i, r, collected, Continue(_)) ==
    IF IsOk(r)
    THEN IF r.rest = i THEN Error("SeparatedList") ELSE Continue(r)
    ELSE IF r.k = "Error" THEN Ok(i, collected) ELSE r

StartsWith(i, t) == Len(i) >= Len(t) /\ SubSeq(i, 1, Len(t)) = t

Drop(i, n) == SubSeq(i, n + 1, Len(i))

RECURSIVE TakeLen(_, _)
TakeLen(i, S) == IF i # <<>> /\ Head(i) \in S THEN 1 + TakeLen(Tail(i), S) ELSE 0

SplitAt(i, n) == Ok(Drop(i, n), SubSeq(i, 1, n))

\* take_while(pred): the longest prefix of characters in S, possibly empty.
take_while(i, S) == SplitAt(i, TakeLen(i, S))

\* The parsers that need at least one character (alphanumeric1, multispace1, is_not).
take_while1(i, n, frame) == IF n = 0 THEN Error(frame) ELSE SplitAt(i, n)

tag(t, i) == IF StartsWith(i, t) THEN Ok(Drop(i, Len(t)), t) ELSE Error("Tag")

char(c, i) == IF i # <<>> /\ Head(i) = c THEN Ok(Tail(i), c) ELSE Error("Char")

\* --------------------------------------------------- Expression nodes
VariableDeclaration(ty, ident) ==
    [node |-> "VariableDeclaration", type |-> ty, name |-> ident]

VariableAssignment(ty, ident, def) ==
    [node |-> "VariableAssignment", type |-> ty, name |-> ident, initializer |-> def]

Container(name, variables) == [name |-> name, variables |-> variables]

Function(name, args, body) == [name |-> name, arguments |-> args, body |-> body]

ContainerDeclaration(c) ==
    [node |-> "ContainerDeclaration", name |-> c.name, variables |-> c.variables]

FunctionDeclaration(f) ==
    [node |-> "FunctionDeclaration", name |-> f.name, arguments |-> f.arguments,
     body |-> f.body]

StringLiteral(s) == [node |-> "StringLiteral", value |-> s]

IntegerLiteral(s) == [node |-> "IntegerLiteral", value |-> s]

Identifier(s) == [node |-> "Identifier", value |-> s]

Comment(s) == [node |-> "Comment", value |-> s]

\* A slip of assign_from_declaration: the two strings of the declaration swapped.
assign_from_declaration_swapped(expr, def) ==
    VariableAssignment(expr.name, expr.type, def)

assign_from_declaration(expr, def) == VariableAssignment(expr.type, expr.name, def)

\* ------------------------------------------------------ productions
W_integer == <<"i","n","t","e","g","e","r">>
W_string == <<"s","t","r","i","n","g">>
W_boolean == <<"b","o","o","l","e","a","n">>
W_character == <<"c","h","a","r","a","c","t","e","r">>

\* The alt of parse_escaped_char at the character after the backslash.
escaped_char(c, after) ==
    CASE c = "n" -> Ok(after, "\n")
      [] c = "r" -> Ok(after, "\r")
      [] c = "t" -> Ok(after, "\t")
      [] c = "\\" -> Ok(after, "\\")
      [] c = "/" -> Ok(after, "/")
      [] c = "\"" -> Ok(after, "\"")
      [] OTHER -> [k |-> "Error", rest |-> <<>>, out |-> <<>>,
                   errors |-> <<"Char", "Alt">>]

parse_escaped_char(i) ==
    and_then(char("\\", i),
             LAMBDA b: IF b.rest = <<>> THEN escaped_char("EOF", <<>>)
                       ELSE escaped_char(Head(b.rest), Tail(b.rest)))

parse_escaped_whitespace(i) ==
    and_then(char("\\", i),
             LAMBDA b: take_while1(b.rest, TakeLen(b.rest, Whitespace), "MultiSpace"))

\* is_not("\"\\"): the length of the run without a quote or a backslash.
RECURSIVE LiteralLen(_)
LiteralLen(i) ==
    IF i # <<>> /\ Head(i) \notin {"\"", "\\"} THEN 1 + LiteralLen(Tail(i)) ELSE 0

parse_literal(i) == take_while1(i, LiteralLen(i), "IsNot")

\* A StringFragment is modelled by the text it adds to the string.
parse_fragment(i) ==
    alt3(parse_literal(i),
         map(parse_escaped_char(i), LAMBDA c: <<c>>),
         map(parse_escaped_whitespace(i), LAMBDA w: <<>>))

RECURSIVE build_string(_, _)
build_string(i, string) ==
    many0_round(i, parse_fragment(i), string,
                LAMBDA f: build_string(f.rest, string \o f.out))

parse_string(i) ==
    and_then(char("\"", i),
        LAMBDA open: and_then(build_string(open.rest, <<>>),
            LAMBDA body: map(char("\"", body.rest),
                LAMBDA close: StringLiteral(body.out))))

space(i) == take_while(i, Whitespace)

\* preceded(space, char(c))
space_char(c, i) == char(c, space(i).rest)

alphanumeric(i) == take_while1(i, TakeLen(i, Alphabetic \cup Digits), "AlphaNumeric")

identifier(i) ==
    context("Identifier",
        and_then(alphanumeric(space(i).rest),
            LAMBDA a: IF Head(a.out) \in Alphabetic THEN a ELSE Error("Verify")))

integer_literal(i) == map(take_while(space(i).rest, Digits), LAMBDA s: IntegerLiteral(s))

\* The alt of type, at the input after the leading space.
type_name(s) ==
    alt5(tag(W_integer, s), tag(W_string, s), tag(W_boolean, s), tag(W_character, s),
         identifier(s))

type(i) == type_name(space(i).rest)

variable_declaration(i) ==
    context("Declaration",
        and_then(type(i),
            LAMBDA t: map(identifier(t.rest),
                LAMBDA ident: VariableDeclaration(t.out, ident))))

\* The alt of assignment, at the input after `=` and the space behind it.
assignment_value(v) ==
    alt3(map(integer_literal(v), LAMBDA s: <<s>>),
         map(parse_string(v), LAMBDA s: <<s>>),
         map(identifier(v), LAMBDA s: <<Identifier(s)>>))

assignment(i) ==
    context("Assignment",
        and_then(space_char("=", i),
            LAMBDA eq: cut(assignment_value(space(eq.rest).rest))))

variable_definition(i) ==
    context("Definition",
        and_then(variable_declaration(i),
            LAMBDA decl: and_then(opt(decl.rest, assignment(decl.rest)),
                LAMBDA def: map(tag(<<";">>, space(def.rest).rest),
                    LAMBDA semi: assign_from_declaration(decl.out, def.out)))))

\* terminated(variable_declaration, char(';'))
container_field(i) ==
    and_then(variable_declaration(i),
        LAMBDA decl: map(char(";", decl.rest), LAMBDA semi: decl.out))

\* many0(terminated(variable_declaration, char(';')))
RECURSIVE container_fields(_, _)
container_fields(i, variables) ==
    many0_round(i, container_field(i), variables,
                LAMBDA f: container_fields(f.rest, Append(variables, f.out)))

container_declaration(i) ==
    context("Container Declaration",
        and_then(identifier(i),
            LAMBDA name: and_then(space_char("{", name.rest),
                LAMBDA open: and_then(container_fields(open.rest, <<>>),
                    LAMBDA fields: map(space_char("}", fields.rest),
                        LAMBDA close: Container(name.out, fields.out))))))

\* take_while(|ch| ch != '\n'): the length of the run up to the next newline.
RECURSIVE LineLen(_)
LineLen(i) == IF i # <<>> /\ Head(i) # "\n" THEN 1 + LineLen(Tail(i)) ELSE 0

comment(i) ==
    context("Comment",
        and_then(tag(<<"/", "/">>, space(i).rest),
            LAMBDA t: cut(SplitAt(t.rest, LineLen(t.rest)))))

\* The alt of scope.
scope_statement(i) ==
    alt3(map(comment(i), LAMBDA s: Comment(s)),
         variable_definition(i),
         parse_string(i))

\* many0(alt((comment, variable_definition, parse_string)))
RECURSIVE scope_statements(_, _)
scope_statements(i, body) ==
    many0_round(i, scope_statement(i), body,
                LAMBDA st: scope_statements(st.rest, Append(body, st.out)))

scope(i) ==
    context("Scope",
        and_then(space_char("{", i),
            LAMBDA open: and_then(scope_statements(open.rest, <<>>),
                LAMBDA body: map(space_char("}", body.rest),
                    LAMBDA close: body.out))))

\* The loop of separated_list after its first element.
RECURSIVE separated_list_loop(_, _)
separated_list_loop(i, res) ==
    list_round(i, space_char(",", i), res,
        LAMBDA sep: list_round(i, variable_declaration(space(sep.rest).rest), res,
            LAMBDA f: separated_list_loop(f.rest, Append(res, f.out))))

separated_list(i) ==
    list_round(i, variable_declaration(space(i).rest), <<>>,
        LAMBDA f: separated_list_loop(f.rest, <<f.out>>))

arguments(i) ==
    context("Arguments",
        and_then(space_char("(", i),
            LAMBDA open: and_then(separated_list(open.rest),
                LAMBDA list: map(space_char(")", list.rest),
                    LAMBDA close: list.out))))

function_declaration(i) ==
    context("Function Declaration",
        and_then(identifier(i),
            LAMBDA name: and_then(arguments(name.rest),
                LAMBDA args: map(scope(args.rest),
                    LAMBDA body: Function(name.out, args.out, body)))))

\* A slip of container_item: the production is not cut.
container_item_uncommitted(i) ==
    and_then(tag(W_container, i), LAMBDA kw: container_declaration(kw.rest))

\* preceded(tag("container"), cut(container_declaration))
container_item(i) ==
    and_then(tag(W_container, i), LAMBDA kw: cut(container_declaration(kw.rest)))

\* preceded(tag("function"), cut(function_declaration))
function_item(i) ==
    and_then(tag(W_function, i), LAMBDA kw: cut(function_declaration(kw.rest)))

\* A slip of top_level_item: the alternatives of scope offered at top level too.
top_level_item_with_statements(i) ==
    alt5(map(comment(i), LAMBDA s: Comment(s)),
         map(container_item(i), LAMBDA c: ContainerDeclaration(c)),
         map(function_item(i), LAMBDA f: FunctionDeclaration(f)),
         variable_definition(i),
         parse_string(i))

\* The alt of parse, at the input after the leading space.
top_level_item(i) ==
    alt3(map(comment(i), LAMBDA s: Comment(s)),
         map(container_item(i), LAMBDA c: ContainerDeclaration(c)),
         map(function_item(i), LAMBDA f: FunctionDeclaration(f)))

\* The parser many0 repeats in parse: preceded(space, alt((comment, container,
\* function))).
top_level(i) == top_level_item(space(i).rest)

\* ---------------------------------------------------- Parser inputs
MaxFields == 2
MaxParams == 2
MaxStmts == 2
MaxItems == 3

SP == <<" ">>
NL == <<"\n">>
W_Point == <<"P","o","i","n","t">>
W_Foo == <<"F","o","o">>
W_integers == <<"i","n","t","e","g","e","r","s">>
W_add == <<"a","d","d">>
W_count == <<"c","o","u","n","t">>
W_widget == <<"w","i","d","g","e","t">>
W_foo == <<"f","o","o">>

\* A declaration `T n` as written in the source, with what follows it.
Decl(ty, name, term) == [type |-> ty, name |-> name, term |-> term]

DeclText(d) == d.type \o SP \o d.name

RECURSIVE FieldsText(_)
FieldsText(fs) ==
    IF fs = <<>> THEN <<>>
    ELSE SP \o DeclText(Head(fs)) \o Head(fs).term \o FieldsText(Tail(fs))

\* container <name> { T1 n1; T2 n2; }
ContainerText(name, fs) ==
    W_container \o SP \o name \o SP \o <<"{">> \o FieldsText(fs) \o SP \o <<"}">>

RECURSIVE ParamsText(_, _)
ParamsText(ps, gap) ==
    IF ps = <<>> THEN <<>>
    ELSE DeclText(Head(ps))
         \o (IF Tail(ps) = <<>> THEN <<>> ELSE gap \o <<",">> \o gap)
         \o ParamsText(Tail(ps), gap)

\* function <name> ( T1 a1 , T2 a2 ) { <statements> }, with gap the whitespace
\* written around the punctuation.
FunctionText(name, ps, stmts, gap) ==
    W_function \o SP \o name \o gap \o <<"(">> \o gap \o ParamsText(ps, gap)
        \o (IF ps = <<>> THEN <<>> ELSE gap) \o <<")">> \o gap \o <<"{">>
        \o Concat(stmts) \o gap \o <<"}">>

FieldTypes == {W_integer, W_Foo, W_integers}
FieldNames == {<<"x">>, <<"y">>}
GoodFields == {Decl(t, n, <<";">>) : t \in FieldTypes, n \in FieldNames}
FieldChoices == GoodFields \cup {Decl(t, n, <<>>) : t \in FieldTypes, n \in FieldNames}

ContainerInputs == {ContainerText(W_Point, fs) : fs \in SeqsUpTo(FieldChoices, MaxFields)}

ParamNames == {<<"a">>, <<"b">>}
ParamChoices == {Decl(t, n, <<>>) : t \in FieldTypes, n \in ParamNames}
Gaps == {<<>>, SP}

SignatureInputs ==
    {FunctionText(W_add, ps, <<>>, g) : ps \in SeqsUpTo(ParamChoices, MaxParams), g \in Gaps}

\* Scope statements, each written with its leading whitespace.
StmtCount == SP \o W_integer \o SP \o W_count \o <<" ", "=", " ", "5", " ", ";">>
StmtVariableCount == SP \o W_variable \o StmtCount
StmtString == SP \o W_string \o <<" ", "s", " ", "=", " ", "\"", "a", "\"", " ", ";">>
StmtIdent == SP \o W_Foo \o <<" ", "f", " ", "=", " ", "g", " ", ";">>
StmtNumber == SP \o W_integer \o <<" ", "n", " ", "=", " ", "4", "2", ";">>
StmtPlain == SP \o W_integer \o <<" ", "x", " ", ";">>
StmtEmpty == SP \o W_integer \o <<" ", "e", " ", "=", " ", ";">>
StmtComment == <<" ", "/", "/", " ", "c", "\n">>
StmtQuoted == <<"\"", "s", "\\", "n", "\"">>

StmtChoices == {StmtCount, StmtVariableCount, StmtString, StmtIdent, StmtNumber,
                StmtPlain, StmtEmpty, StmtComment, StmtQuoted}

BodyInputs ==
    {FunctionText(W_add, <<>>, ss, SP) : ss \in SeqsUpTo(StmtChoices, MaxStmts)}

\* Top-level items.
GoodContainer == ContainerText(W_Point, <<Decl(W_integer, <<"x">>, <<";">>)>>) \o NL
GoodFunction == FunctionText(W_add, <<>>, <<>>, SP) \o NL
CommentLine == <<"/", "/", " ", "c", "\n">>
BadContainer == ContainerText(W_Point, <<Decl(W_integer, <<"x">>, <<>>)>>) \o NL
BadFunction == W_function \o SP \o W_add \o <<" ", "(", " ", ")", "\n">>
Widget == W_widget \o SP \o W_foo \o <<" ", "{", "}">>
TopStatement == W_integer \o <<" ", "x", " ", ";", "\n">>

ItemChoices == {GoodContainer, GoodFunction, CommentLine, BadContainer, BadFunction,
                Widget, TopStatement}

ProgramInputs == {Concat(items) : items \in SeqsUpTo(ItemChoices, MaxItems)}

ParseInputs == ContainerInputs \cup SignatureInputs \cup BodyInputs \cup ProgramInputs

\* ------------------------------------- Parser::from_content, parse
Pending == [tag |-> "Pending", expressions |-> <<>>, message |-> <<>>]

LexerIdle ==
    /\ input_iter = <<>>
    /\ line_number = 1
    /\ column = 1
    /\ tokens = <<>>
    /\ finished = TRUE
    /\ panicked = FALSE

ParserInit ==
    /\ content \in ParseInputs
    /\ rest = content
    /\ acc = <<>>
    /\ outcome = Pending
    /\ LexerIdle

\* One round of parse's many0 that matched a top-level item: it is pushed.
ParseItem ==
    /\ outcome = Pending
    /\ LET r == top_level(rest)
       IN  /\ IsOk(r)
           /\ r.rest # rest
           /\ acc' = Append(acc, r.out)
           /\ rest' = r.rest
    /\ UNCHANGED <<content, outcome, lexerVars>>

\* The round of many0 that ends with an Error: parse returns Ok((rest, acc)) and
\* from_content returns Ok(Parser { expressions }).
ParseOk ==
    /\ outcome = Pending
    /\ top_level(rest).k = "Error"
    /\ outcome' = [tag |-> "Ok", expressions |-> acc, message |-> <<>>]
    /\ UNCHANGED <<content, rest, acc, lexerVars>>

\* many0 passes a Failure on (and reports an item that consumed nothing as an
\* Error of its own): from_content returns Err with the formatted frames.
ParseErr ==
    /\ outcome = Pending
    /\ LET r == top_level(rest)
       IN  /\ r.k = "Failure" \/ (IsOk(r) /\ r.rest = rest)
           /\ outcome' = [tag |-> "Err", expressions |-> <<>>,
                          message |-> IF IsOk(r) THEN <<"Many0">> ELSE r.errors]
    /\ UNCHANGED <<content, rest, acc, lexerVars>>

ParserNext == ParseItem \/ ParseOk \/ ParseErr

ParserSpec == ParserInit /\ [][ParserNext]_vars

\* ========================================================== claims
Done == outcome.tag \in {"Ok", "Err"}

RECURSIVE Trim(_)
Trim(i) == IF i # <<>> /\ Head(i) \in Whitespace THEN Trim(Tail(i)) ELSE i

Nodes(es) == {es[k].node : k \in 1..Len(es)}

\* ---- C1
\* C1: from_content on text whose first lexeme is not `//`, `container` or
\* `function` returns Err with a non-empty diagnostic chain, never Ok, and
\* produces no top-level declaration.
UnknownStart ==
    LET s == Trim(content)
    IN  /\ s # <<>>
        /\ ~StartsWith(s, <<"/", "/">>)
        /\ ~StartsWith(s, W_container)
        /\ ~StartsWith(s, W_function)

C1_UnknownKeywordFails ==
    (UnknownStart /\ Done) =>
        (outcome.tag = "Err" /\ outcome.message # <<>> /\ acc = <<>>)

\* ---- C2
CountAssignment ==
    VariableAssignment(W_integer, W_count, Some(<<IntegerLiteral(<<"5">>)>>))

\* Statements the scope rule accepts wherever they stand in the body. A quoted
\* string is not among them: parse_string skips no whitespace, so scope accepts
\* it only directly after `{`, `;` or another string.
AcceptedStmts == {StmtCount, StmtNumber, StmtPlain, StmtEmpty, StmtComment}

Bodies(stmt) ==
    {ss \in SeqsUpTo(AcceptedStmts \cup {stmt}, MaxStmts) :
        \E k \in 1..Len(ss) : ss[k] = stmt}

FunctionsWith(stmt) == {FunctionText(W_add, <<>>, ss, SP) : ss \in Bodies(stmt)}

FunctionsWithVariableCount == FunctionsWith(StmtVariableCount)

FunctionsWithCount == FunctionsWith(StmtCount)

BodyHasCount ==
    /\ outcome.tag = "Ok"
    /\ Len(outcome.expressions) = 1
    /\ outcome.expressions[1].node = "FunctionDeclaration"
    /\ \E k \in 1..Len(outcome.expressions[1].body) :
          outcome.expressions[1].body[k] = CountAssignment

\* C2 as stated: a function whose scope contains `variable integer count = 5 ;`
\* parses, and its body contains VariableAssignment("integer", "count",
\* Some([IntegerLiteral("5")])).
C2_VariableKeywordStatement ==
    (content \in FunctionsWithVariableCount /\ Done) => BodyHasCount

\* C2 amended: the statement is written `integer count = 5 ;`, without a leading
\* `variable`; a function whose scope contains it parses and its body contains
\* VariableAssignment("integer", "count", Some([IntegerLiteral("5")])).
C2_CountStatement ==
    (content \in FunctionsWithCount /\ Done) => BodyHasCount

C2_Witness ==
    /\ content = FunctionText(W_add, <<>>, <<StmtCount>>, SP)
    /\ outcome.tag = "Ok"
    /\ outcome.expressions[1].body = <<CountAssignment>>

\* ---- C3
Declarations(ds) == [k \in 1..Len(ds) |-> VariableDeclaration(ds[k].type, ds[k].name)]

\* C3: `container <Name> { T1 n1; ... Tk nk; }` parses to exactly one
\* ContainerDeclaration named <Name> whose variables are the k
\* VariableDeclaration(Ti, ni) in source order.
C3_ContainerFields ==
    \A fs \in SeqsUpTo(GoodFields, MaxFields) :
        (content = ContainerText(W_Point, fs) /\ Done) =>
            /\ outcome.tag = "Ok"
            /\ outcome.expressions =
                   <<ContainerDeclaration(Container(W_Point, Declarations(fs)))>>

\* ---- C4
\* C4: `function <name> ( T1 a1 , ... , Tk ak ) { }`, with or without whitespace
\* around the lexemes, parses to exactly one FunctionDeclaration with that name,
\* the k VariableDeclaration(Ti, ai) in source order and an empty body.
C4_FunctionSignature ==
    \A ps \in SeqsUpTo(ParamChoices, MaxParams) : \A g \in Gaps :
        (content = FunctionText(W_add, ps, <<>>, g) /\ Done) =>
            /\ outcome.tag = "Ok"
            /\ outcome.expressions =
                   <<FunctionDeclaration(Function(W_add, Declarations(ps), <<>>))>>

\* ---- C5
\* The keyword matched at the top-level position i and the rest of its
\* production did not.
CommittedFailure(i) ==
    LET s == Trim(i)
    IN  \/ /\ StartsWith(s, W_container)
           /\ ~IsOk(container_declaration(Drop(s, Len(W_container))))
        \/ /\ StartsWith(s, W_function)
           /\ ~IsOk(function_declaration(Drop(s, Len(W_function))))

\* C5: once `container` or `function` has matched at top level, a failure in the
\* rest of that production makes from_content return Err for the whole input,
\* whatever was parsed before it.
C5_CommittedFailureIsFatal ==
    [][(outcome = Pending /\ CommittedFailure(rest)) =>
           (outcome'.tag = "Err" /\ outcome'.expressions = <<>>
              /\ outcome'.message # <<>>)]_vars

C5_Witness ==
    /\ content = GoodContainer \o GoodFunction \o BadContainer
    /\ Len(acc) = 2
    /\ outcome.tag = "Err"

\* ---- C6
\* C6 as stated: on success every top-level element is a ContainerDeclaration or
\* a FunctionDeclaration.
C6_OnlyDeclarations ==
    outcome.tag = "Ok" =>
        Nodes(outcome.expressions) \subseteq {"ContainerDeclaration", "FunctionDeclaration"}

\* C6 amended: on success every top-level element is a ContainerDeclaration, a
\* FunctionDeclaration or a Comment: a top-level `//` comment is kept as a
\* Comment node; no literal or variable node appears at top level.
C6_DeclarationsAndComments ==
    outcome.tag = "Ok" =>
        Nodes(outcome.expressions)
            \subseteq {"ContainerDeclaration", "FunctionDeclaration", "Comment"}

C6_Witness ==
    /\ outcome.tag = "Ok"
    /\ Nodes(outcome.expressions) = {"ContainerDeclaration", "FunctionDeclaration", "Comment"}

\* ---- C7
InitializerOf(stmt) ==
    CASE stmt = StmtCount ->
             VariableAssignment(W_integer, W_count, Some(<<IntegerLiteral(<<"5">>)>>))
      [] stmt = StmtNumber ->
             VariableAssignment(W_integer, <<"n">>, Some(<<IntegerLiteral(<<"4", "2">>)>>))
      [] stmt = StmtString ->
             VariableAssignment(W_string, <<"s">>, Some(<<StringLiteral(<<"a">>)>>))
      [] stmt = StmtIdent ->
             VariableAssignment(W_Foo, <<"f">>, Some(<<Identifier(<<"g">>)>>))

\* C7: a scope-level definition `T n = v ;` is accepted for v a digit run, a
\* quoted string and an identifier, and yields VariableAssignment(T, n, Some(s))
\* with s the one-element sequence [IntegerLiteral(v)], [StringLiteral(contents)]
\* or [Identifier(v)].
C7_InitializerForms ==
    \A stmt \in {StmtCount, StmtNumber, StmtString, StmtIdent} :
        (content = FunctionText(W_add, <<>>, <<stmt>>, SP) /\ Done) =>
            /\ outcome.tag = "Ok"
            /\ outcome.expressions[1].body = <<InitializerOf(stmt)>>

\* ---- C8
PairOf(c) == IF c \in {"&", "|"} THEN c ELSE "="

TwoKind(c) ==
    CASE c = "=" -> "Equality"
      [] c = ">" -> "GreaterEqualTo"
      [] c = "<" -> "LessEqualTo"
      [] c = "-" -> "SubtractEqual"
      [] c = "+" -> "AddEqual"
      [] c = "*" -> "MultiplyEqual"
      [] c = "/" -> "DivideEqual"
      [] c = "!" -> "LogicalNotEqualTo"
      [] c = "&" -> "LogicalAnd"
      [] c = "|" -> "LogicalOr"

OneKind(c) ==
    CASE c = "=" -> "Assignment"
      [] c = ">" -> "GreaterThan"
      [] c = "<" -> "LessThan"
      [] c = "-" -> "Subtraction"
      [] c = "+" -> "Addition"
      [] c = "*" -> "Multiply"
      [] c = "/" -> "Divide"
      [] c = "!" -> "LogicalNot"
      [] c = "&" -> "BitwiseAnd"
      [] c = "|" -> "BitwiseOr"

\* The step pushed exactly one token, of this kind.
Emitted(kind) ==
    /\ Len(tokens') = Len(tokens) + 1
    /\ SubSeq(tokens', 1, Len(tokens)) = tokens
    /\ tokens'[Len(tokens')].kind = kind

IsSuffix(t, i) == Len(t) <= Len(i) /\ t = Drop(i, Len(i) - Len(t))

\* The next lexeme starts with an operator character: what the step does with
\* it. slashes tells what is expected of `/` followed by `/`.
OperatorStep(slashes) ==
    LET s == Trim(input_iter)
    IN  (~finished /\ s # <<>> /\ s[1] \in OpFirst) =>
            IF Len(s) >= 2 /\ s[2] = PairOf(s[1])
            THEN Emitted(TwoKind(s[1])) /\ input_iter' = Drop(s, 2)
            ELSE IF Len(s) >= 2 /\ s[1] = "/" /\ s[2] = "/" /\ slashes = "comment"
            THEN /\ IsSuffix(input_iter', Drop(s, LineLen(s)))
                 /\ \/ tokens' = tokens
                    \/ Len(tokens') = Len(tokens) + 1 /\ input_iter' # Drop(s, 1)
            ELSE Emitted(OneKind(s[1])) /\ input_iter' = Drop(s, 1)

\* C8 as stated: a two-character operator is one token of the two-character
\* kind; a first character followed by anything but its pairing character, or by
\* the end of input, is the one-character token and the next character stays.
C8_GreedyOperators == [][OperatorStep("divide")]_vars

\* C8 amended: the same, except that `/` followed by `/` is no Divide token: it
\* begins a line comment, which is discarded up to and including the newline.
C8_GreedyOperatorsButComment == [][OperatorStep("comment")]_vars

C8_Witness ==
    /\ Len(content) = 3
    /\ content[1] \in OpFirst
    /\ content[2] = PairOf(content[1])
    /\ content[3] = content[1]
    /\ Len(tokens) = 2
    /\ tokens[1].kind = TwoKind(content[1])
    /\ tokens[2].kind = OneKind(content[1])

\* ---- C9
\* r[k] is a quote that is not right behind a backslash.
IsClosing(r, k) == r[k] = "\"" /\ (k = 1 \/ r[k - 1] # "\\")

HasClosing(r) == \E k \in 1..Len(r) : IsClosing(r, k)

ClosingIndex(r) ==
    CHOOSE k \in 1..Len(r) : IsClosing(r, k) /\ \A j \in 1..(k - 1) : ~IsClosing(r, j)

StringStep ==
    LET s == Trim(input_iter)
    IN  (~finished /\ s # <<>> /\ s[1] = "\"" /\ HasClosing(Tail(s))) =>
            LET r == Tail(s)
                k == ClosingIndex(r)
            IN  /\ Emitted("StringLiteral")
                /\ tokens'[Len(tokens')].payload = SubSeq(r, 1, k - 1)
                /\ input_iter' = Drop(r, k)

\* C9: the payload of a StringLiteral is the raw text up to the first quote not
\* right behind a backslash; an escaped quote stays in the payload with its
\* backslash, and the closing quote is consumed.
C9_StringPayload == [][StringStep]_vars

C9_Witness ==
    /\ content = <<"\"", "a", "\\", "\"", "b", "\"">>
    /\ Len(tokens) = 1
    /\ tokens[1].kind = "StringLiteral"
    /\ tokens[1].payload = <<"a", "\\", "\"", "b">>
    /\ input_iter = <<>>

\* ---- C10
KeywordKind(w) ==
    CASE w = W_if -> "If"
      [] w = W_else -> "Else"
      [] w = W_for -> "For"
      [] w = W_function -> "Function"
      [] w = W_variable -> "Variable"
      [] w = W_container -> "Container"
      [] w = W_true -> "True"
      [] w = W_false -> "False"
      [] OTHER -> "Identifier"

Keywords == {W_if, W_else, W_for, W_function, W_variable, W_container, W_true, W_false}

WordChars == Letters \cup Digits \cup {"_"}

\* Every Identifier token of ts: first character in First, the others letters,
\* digits or `_`, and no keyword.
IdentifiersShaped(ts, First) ==
    \A k \in 1..Len(ts) :
        ts[k].kind = "Identifier" =>
            /\ ts[k].payload # <<>>
            /\ ts[k].payload[1] \in First
            /\ \A j \in 2..Len(ts[k].payload) : ts[k].payload[j] \in WordChars
            /\ ts[k].payload \notin Keywords

\* The next lexeme is a word: a keyword is pushed as its own token, any other
\* word as an Identifier holding it (when the step emits at all: LexPanic does
\* not).
WordStep ==
    LET s == Trim(input_iter)
    IN  (~finished /\ ~panicked' /\ s # <<>> /\ s[1] \in Letters \cup {"_"}) =>
            LET w == SubSeq(s, 1, TakeLen(s, WordChars))
            IN  /\ Emitted(KeywordKind(w))
                /\ w \notin Keywords => tokens'[Len(tokens')].payload = w

\* C10 as stated: an Identifier's payload starts with an alphabetic character,
\* goes on with letters, digits or `_`, and is no keyword; a word equal to a
\* keyword is that keyword's token.
C10_IdentifierAlphabeticFirst ==
    [][IdentifiersShaped(tokens', Letters) /\ WordStep]_vars

\* C10 amended: the first character is alphabetic or `_`.
C10_IdentifierShape ==
    [][IdentifiersShaped(tokens', Letters \cup {"_"}) /\ WordStep]_vars

C10_Witness ==
    /\ content = <<"_", " ">> \o W_if
    /\ Len(tokens) = 2
    /\ tokens[1] = TokenWith("Identifier", tokens[1].loc, <<"_">>)
    /\ tokens[2].kind = "If"

\* ---- C11
\* What is left of a line from its first character on, the newline dropped.
RECURSIVE DropLine(_)
DropLine(s) ==
    IF s = <<>> THEN <<>> ELSE IF Head(s) = "\n" THEN Tail(s) ELSE DropLine(Tail(s))

\* The text from the next lexeme on: whitespace and `//` comments dropped.
RECURSIVE SkipBlank(_)
SkipBlank(s) ==
    IF s # <<>> /\ Head(s) \in Whitespace
    THEN SkipBlank(Tail(s))
    ELSE IF Len(s) >= 2 /\ s[1] = "/" /\ s[2] = "/"
         THEN SkipBlank(DropLine(s))
         ELSE s

\* Line and column, counted from 1, of the i-th character of text.
LineAt(text, i) == 1 + Cardinality({k \in 1..(i - 1) : text[k] = "\n"})

ColumnAt(text, i) ==
    LET breaks == {k \in 1..(i - 1) : text[k] = "\n"}
    IN  IF breaks = {} THEN i ELSE i - (CHOOSE k \in breaks : \A j \in breaks : j <= k)

\* Index in content of the first character of the next lexeme.
LexemeStart == Len(content) - Len(SkipBlank(input_iter)) + 1

\* C11: every token the Lexer emits carries the line and column, counted from
\* 1, of the first character of its lexeme in the source text.
C11_StartLocation ==
    [][Len(tokens') = Len(tokens) + 1 =>
           tokens'[Len(tokens')].loc =
               Location(ColumnAt(content, LexemeStart), LineAt(content, LexemeStart))]_vars

\* ---- C12
\* The source text of the kinds that carry no payload.
KindText(kind) ==
    CASE kind = "If" -> W_if
      [] kind = "Else" -> W_else
      [] kind = "For" -> W_for
      [] kind = "Function" -> W_function
      [] kind = "Variable" -> W_variable
      [] kind = "Container" -> W_container
      [] kind = "True" -> W_true
      [] kind = "False" -> W_false
      [] kind = "Semicolon" -> <<";">>
      [] kind = "Comma" -> <<",">>
      [] kind = "OpenBracket" -> <<"[">>
      [] kind = "CloseBracket" -> <<"]">>
      [] kind = "OpenParentheses" -> <<"(">>
      [] kind = "CloseParentheses" -> <<")">>
      [] kind = "OpenCurlyBrace" -> <<"{">>
      [] kind = "CloseCurlyBrace" -> <<"}">>
      [] kind = "Dot" -> <<".">>
      [] kind = "Assignment" -> <<"=">>
      [] kind = "Equality" -> <<"=", "=">>
      [] kind = "GreaterThan" -> <<">">>
      [] kind = "GreaterEqualTo" -> <<">", "=">>
      [] kind = "LessThan" -> <<"<">>
      [] kind = "LessEqualTo" -> <<"<", "=">>
      [] kind = "LogicalNot" -> <<"!">>
      [] kind = "LogicalNotEqualTo" -> <<"!", "=">>
      [] kind = "LogicalOr" -> <<"|", "|">>
      [] kind = "LogicalAnd" -> <<"&", "&">>
      [] kind = "BitwiseOr" -> <<"|">>
      [] kind = "BitwiseAnd" -> <<"&">>
      [] kind = "BitwiseNot" -> <<"~">>
      [] kind = "SubtractEqual" -> <<"-", "=">>
      [] kind = "AddEqual" -> <<"+", "=">>
      [] kind = "MultiplyEqual" -> <<"*", "=">>
      [] kind = "DivideEqual" -> <<"/", "=">>
      [] kind = "Subtraction" -> <<"-">>
      [] kind = "Addition" -> <<"+">>
      [] kind = "Multiply" -> <<"*">>
      [] kind = "Divide" -> <<"/">>

\* The text of a token: the payload of an identifier or a number, the payload
\* between its quotes of a string, the source text of any other kind.
Lexeme(tok) ==
    CASE tok.kind \in {"Identifier", "NumberLiteral"} -> tok.payload
      [] tok.kind = "StringLiteral" -> <<"\"">> \o tok.payload \o <<"\"">>
      [] OTHER -> KindText(tok.kind)

\* The texts of ts in order, sep between two of them.
RECURSIVE Join(_, _)
Join(ts, sep) ==
    IF ts = <<>> THEN <<>>
    ELSE IF Len(ts) = 1 THEN Lexeme(ts[1])
    ELSE Lexeme(ts[1]) \o sep \o Join(Tail(ts), sep)

Kinds(ts) == [k \in 1..Len(ts) |-> ts[k].kind]

\* Well-formed text: the Lexer scans it to its end (no character it cannot
\* classify) and every string in it is closed.
RECURSIVE ScansToEnd(_)
ScansToEnd(lx) ==
    LET r == next_token(lx)
        read == Len(SkipBlank(lx.input_iter)) - Len(r.lx.input_iter)
    IN  IF r.tok = None
        THEN SkipBlank(lx.input_iter) = <<>>
        ELSE /\ r.tok.kind = "StringLiteral" => read = Len(r.tok.payload) + 2
             /\ ScansToEnd(r.lx)

WellFormed == ScansToEnd(new(content))

\* What a second pass over text can return: the kinds of its tokens, or, where
\* the subtraction of lookup_keyword overflows in it, the panic of a build with
\* overflow checks.
SecondPass(text) ==
    LET ts == lex(new(text))
    IN  {[panicked |-> FALSE, kinds |-> Kinds(ts)]}
            \cup {[panicked |-> TRUE, kinds |-> <<>>] :
                     k \in {j \in 1..Len(ts) : ts[j].loc.column < 0}}

TextBeforeStop ==
    SubSeq(content, 1, Len(content) - Len(SkipBlank(input_iter)))

\* The step that ends lex returns the tokens of the text before the character
\* it stopped at, as it does at the end of input.
StopsAsAtEnd ==
    (~finished /\ finished') => tokens' = lex(new(TextBeforeStop))

\* C13: at a character the Lexer cannot classify the token sequence ends as it
\* does at end of input, with the tokens of the text before that character, and
\* no input makes the Lexer panic.
C13_InvalidEndsQuietly == [][StopsAsAtEnd /\ ~panicked']_vars

\* ---- C14
\* A line from its newline on.
RECURSIVE FromNewline(_)
FromNewline(s) ==
    IF s = <<>> \/ Head(s) = "\n" THEN s ELSE FromNewline(Tail(s))

\* The text with the text of every `//` comment deleted and its newline kept
\* (for text without strings, where every `//` starts a comment).
RECURSIVE StripComments(_)
StripComments(s) ==
    IF s = <<>> THEN <<>>
    ELSE IF Len(s) >= 2 /\ s[1] = "/" /\ s[2] = "/"
         THEN StripComments(FromNewline(s))
         ELSE <<Head(s)>> \o StripComments(Tail(s))

\* C14: a `//` comment is discarded through its newline and yields no token,
\* and the tokens after it have the kinds, payloads, lines and columns they
\* would have with the comment text, but not its newline, deleted.
C14_CommentsVanish ==
    (finished /\ content \in CommentInputs) =>
        tokens = lex(new(StripComments(content)))

====
